---- MODULE Spec2Model ----
(***************************************************************************)
(* axum-jwt-oidc: a Tower layer (OidcAuthLayer) and service                *)
(* (OidcAuthMiddleware) that read the Authorization header of a request,   *)
(* hand the token to an external OIDC validator, insert the decoded claims *)
(* into the request extensions and then call the inner service.           *)
(*                                                                         *)
(* The model follows src/src/layer.rs, src/src/middleware.rs and           *)
(* src/src/auth.rs (src/src/lib.rs holds the same code in one file).       *)
(* The validator (crate async_oidc_jwt_validator), the inner service and   *)
(* the caller that polls and drops the returned future are environment.    *)
(***************************************************************************)
EXTENDS Naturals, Sequences, FiniteSets, TLC

\* Number of requests in flight at the same time.
NReq == 2

Requests == 1..NReq

\* Number of factories and middleware instances made besides the attached
\* ones.
MaxBuilt == 2

(***************************************************************************)
(* Values                                                                  *)
(***************************************************************************)

\* The claims shapes T the layer is instantiated with (PhantomData<T>).
Shapes == {"T1", "T2"}

\* http::Extensions is a map keyed by the TypeId of the stored value; "Other"
\* stands for an extension of an unrelated type.
Keys == Shapes \cup {"Other"}

\* Option<X> is a set with at most one element.
None == {}
Some(x) == {x}

\* Subjects the validator can decode.
Subjects == {"u1", "u2"}

\* A decoded identity of shape T.
Claims(T, sub) == [shape |-> T, sub |-> sub]

\* The value of the unrelated extension a request arrives with.
OtherValue == [shape |-> "Other", sub |-> "x"]

\* Characters are one-letter strings, text is a sequence of characters.
BearerPrefix == <<"B", "e", "a", "r", "e", "r", " ">>
TokA == <<"a">>
TokB == <<"b">>
TokC == <<"c">>

\* A header value: absent, bytes that are not visible ASCII, or text.
Absent == [kind |-> "absent", text |-> <<>>]
NotText == [kind |-> "bytes", text |-> <<>>]
Text(s) == [kind |-> "text", text |-> s]

\* The Authorization headers requests arrive with.
Headers ==
    { Absent, NotText,
      Text(BearerPrefix \o TokA),
      Text(BearerPrefix \o TokB),
      Text(TokC),
      Text(<<"B", "a", "s", "i", "c", " ">> \o TokA) }

\* Header values of every form the token extraction tells apart: the scheme
\* in another case or another scheme, a bare token, the prefix alone, the
\* prefix twice, the scheme word without its space, a space before the
\* scheme, two spaces after it, the empty value.
HeaderValues ==
    { Absent, NotText,
      Text(BearerPrefix \o TokA),
      Text(BearerPrefix \o TokC),
      Text(<<"b", "e", "a", "r", "e", "r", " ">> \o TokA),
      Text(<<"B", "a", "s", "i", "c", " ">> \o TokA),
      Text(TokA),
      Text(BearerPrefix),
      Text(BearerPrefix \o BearerPrefix \o TokA),
      Text(<<"B", "e", "a", "r", "e", "r">>),
      Text(<<" ">> \o BearerPrefix \o TokA),
      Text(BearerPrefix \o <<" ">> \o TokA),
      Text(<<>>) }

\* The extensions of a request as it reaches the middleware: created empty
\* per request, apart from the unrelated extension.
ArrivalExtensions == [k \in Keys |-> IF k = "Other" THEN Some(OtherValue) ELSE None]

\* The request that arrives on the route of attachment m with header h.
NewRequest(m, h) ==
    [method |-> "GET", uri |-> m, authorization |-> h, body |-> "",
     extensions |-> ArrivalExtensions]

\* Claims an outer attachment has stored before the request reaches this one.
OuterClaims(T) == Claims(T, "u0")

\* The extensions of a request that passed outer attachments of both shapes.
OuterExtensions == [k \in Keys |-> IF k = "Other" THEN Some(OtherValue) ELSE Some(OuterClaims(k))]

VARIABLES
    mws,     \* the middleware instances, one per attachment (route)
    futs,    \* per request: the future returned by call and its progress
    ready,   \* per attachment: the caller saw poll_ready return Ready(Ok(()))
             \* and has not called since
    polled,  \* the last poll_ready: what the inner service reported and what
             \* the middleware returned
    layers,  \* the OidcAuthLayer values that exist: the factories and their clones
    clones   \* further middleware instances: made by layer or by clone

vars == <<mws, futs, ready, polled, layers, clones>>

\* Everything but the futures.
services == <<mws, ready, polled, layers, clones>>

(***************************************************************************)
(* The environment: validator and inner service                            *)
(***************************************************************************)

\* Result<T, Error> of the validator.
Ok(c) == [ok |-> TRUE, claims |-> Some(c), err |-> ""]
Err(e) == [ok |-> FALSE, claims |-> None, err |-> e]

\* oidc_validator.validate_custom::<T>(token, validation): the results the
\* validator can deliver for a token.  TokA decodes to u1 in either shape
\* unless it has expired, TokC decodes to u2 but its payload lacks a field
\* shape T2 requires, every other token is rejected.
validate_custom(token, T, validation) ==
    IF token = TokA THEN {Ok(Claims(T, "u1")), Err("ExpiredSignature")}
    ELSE IF token = TokC
         THEN IF T = "T1" THEN {Ok(Claims(T, "u2"))} ELSE {Err("Deserialize")}
         ELSE {Err("InvalidToken")}

\* The inner service S wrapped by the attachment for shape T; state is what
\* its last poll_ready left it in.
InnerService(T) == [handler |-> T, state |-> "idle"]

\* S::clone: the clone has not been polled.
CloneInner(s) == [s EXCEPT !.state = "idle"]

\* Poll<Result<(), S::Error>>: Pending, Ready(Ok(())), Ready(Err(e)) for
\* two errors e.
PollOutcomes == {"Pending", "ReadyOk", "ReadyErr e1", "ReadyErr e2"}

\* S::poll_ready: the outcomes an instance in a given state can report.  A
\* ready instance stays ready until it is called.
InnerPoll(s) ==
    IF s.state = "ready" THEN {"ReadyOk"} ELSE PollOutcomes

\* The state the instance is in after reporting p.
AfterPoll(s, p) == [s EXCEPT !.state = IF p = "ReadyOk" THEN "ready" ELSE @]

\* Result<Response, S::Error> of the inner service.
Response(body) == [tag |-> "Ok", status |-> "200", body |-> body]
InnerError == [tag |-> "Err", status |-> "", body |-> "inner error"]

\* The test handler: extracts Option<Extension<T>> and answers accordingly.
handler(T, req) ==
    IF req.extensions[T] # None THEN "Authenticated" ELSE "Not authenticated"

\* What the inner service can produce for the request it is called with.
InnerOutcomes(s, req) == {Response(handler(s.handler, req)), InnerError}

(***************************************************************************)
(* layer.rs                                                                *)
(***************************************************************************)

\* OidcAuthLayer::<T>::new
new(oidc_validator, validation, T) ==
    [oidc_validator |-> oidc_validator, validation |-> validation, shape |-> T]

\* <OidcAuthLayer<T> as Layer<S>>::layer
layer(self, inner) ==
    [inner |-> inner,
     oidc_validator |-> self.oidc_validator,
     validation |-> self.validation,
     shape |-> self.shape]

\* clone_layer gone wrong: a hand-written Clone that builds a validator of
\* its own instead of sharing the handle.
clone_layer_rebuild(self) ==
    [oidc_validator |-> "validator rebuilt", validation |-> self.validation,
     shape |-> self.shape]

\* #[derive(Clone)] on OidcAuthLayer: the Arc is cloned (same validator),
\* the config is cloned (equal value).
clone_layer(self) ==
    [oidc_validator |-> self.oidc_validator, validation |-> self.validation,
     shape |-> self.shape]

(***************************************************************************)
(* auth.rs                                                                 *)
(***************************************************************************)

\* headers.get("authorization").and_then(|h| h.to_str().ok())
auth_header(req) ==
    IF req.authorization.kind = "text" THEN Some(req.authorization.text) ELSE None

\* strip_prefix gone wrong: str::trim_start_matches, which removes the
\* prefix as often as it leads the text.
RECURSIVE trim_start_matches(_, _)
trim_start_matches(s, p) ==
    IF Len(s) >= Len(p) /\ SubSeq(s, 1, Len(p)) = p
    THEN LET rest == SubSeq(s, Len(p) + 1, Len(s))
         IN  IF Len(rest) >= Len(p) /\ SubSeq(rest, 1, Len(p)) = p
             THEN trim_start_matches(rest, p)
             ELSE {rest}
    ELSE {}

\* str::strip_prefix
strip_prefix(s, p) ==
    IF Len(s) >= Len(p) /\ SubSeq(s, 1, Len(p)) = p
    THEN Some(SubSeq(s, Len(p) + 1, Len(s)))
    ELSE None

\* token_of gone wrong: whatever scheme word leads the header is removed.
token_of_any_scheme(h) ==
    IF \E i \in 1..Len(h) : h[i] = " "
    THEN SubSeq(h, (CHOOSE i \in 1..Len(h) :
                       h[i] = " " /\ \A j \in 1..(i - 1) : h[j] # " ") + 1, Len(h))
    ELSE h

\* auth_header.strip_prefix("Bearer ").unwrap_or(auth_header)
token_of(h) ==
    LET stripped == strip_prefix(h, BearerPrefix)
    IN  IF stripped # None THEN CHOOSE t \in stripped : TRUE ELSE h

\* The match on the validator's result: Ok(claims) => Some(claims), Err => None.
claims_of(res) == IF res.ok THEN res.claims ELSE None

(***************************************************************************)
(* middleware.rs                                                           *)
(***************************************************************************)

\* insert gone wrong: one slot for the claims of every shape.
insert_untyped(extensions, claims) == [extensions EXCEPT !["T1"] = Some(claims)]

\* insert gone wrong: a value already in the slot is kept
\* (get_or_insert instead of insert).
insert_if_absent(extensions, claims) ==
    IF extensions[claims.shape] # None
    THEN extensions
    ELSE [extensions EXCEPT ![claims.shape] = Some(claims)]

\* req.extensions_mut().insert(claims): the slot is the one of the value's type.
insert(extensions, claims) == [extensions EXCEPT ![claims.shape] = Some(claims)]

\* store_claims gone wrong: a request without claims is given guest claims.
store_claims_guest(req, found) ==
    [req EXCEPT !.extensions =
        insert(@, IF found # None THEN CHOOSE c \in found : TRUE
                                   ELSE Claims(req.uri, "guest"))]

\* store_claims gone wrong: the insert is missing.
store_claims_skip(req, found) == req

\* if let Some(claims) = ... { req.extensions_mut().insert(claims); }
store_claims(req, found) ==
    IF found # None
    THEN [req EXCEPT !.extensions = insert(@, CHOOSE c \in found : TRUE)]
    ELSE req

\* #[derive(Clone)] on OidcAuthMiddleware: every field is cloned.
clone_middleware(self) ==
    [inner |-> CloneInner(self.inner),
     oidc_validator |-> self.oidc_validator,
     validation |-> self.validation,
     shape |-> self.shape]

NoRequest ==
    [method |-> "", uri |-> "", authorization |-> Absent, body |-> "",
     extensions |-> [k \in Keys |-> None]]
NoService == [handler |-> "", state |-> ""]

\* A request for which call has not been made yet.
Idle ==
    [pc |-> "idle", req |-> NoRequest, inner |-> NoService,
     oidc_validator |-> "", validation |-> "", shape |-> "",
     token |-> None, val |-> "none", valResult |-> None,
     observed |-> None, innerOut |-> None, out |-> None,
     writes |-> 0, invoked |-> 0, valCalls |-> 0, at |-> ""]

\* Created gone wrong: the future is given a clone of the inner service
\* (let mut inner = self.inner.clone()) and the polled one stays behind.
CreatedWithClone(self, req) ==
    [Idle EXCEPT !.pc = "created", !.req = req, !.inner = CloneInner(self.inner),
                 !.oidc_validator = self.oidc_validator,
                 !.validation = self.validation, !.shape = self.shape]

\* The future call returns: Box::pin(async move { ... }) owning req, the
\* swapped-out inner service and the clones of validator handle and config.
Created(self, req) ==
    [Idle EXCEPT !.pc = "created", !.req = req, !.inner = self.inner,
                 !.oidc_validator = self.oidc_validator,
                 !.validation = self.validation, !.shape = self.shape]

\* inner.call(req): the request leaves the middleware.
Dispatch(f, req) ==
    [f EXCEPT !.pc = "dispatched", !.req = req, !.observed = Some(req),
              !.invoked = @ + 1]

\* Resume gone wrong: a validator failure is answered with 401 instead of
\* calling the inner service.
ResumeReject(f, res) ==
    IF res.ok
    THEN Dispatch([f EXCEPT !.val = "returned", !.valResult = Some(res), !.writes = @ + 1],
                  store_claims(f.req, claims_of(res)))
    ELSE [Idle EXCEPT !.pc = "done", !.at = f.pc, !.valCalls = f.valCalls,
                      !.out = Some([tag |-> "Ok", status |-> "401", body |-> "Unauthorized"])]

\* Resume gone wrong: after a failure the validator is asked once more.
ResumeRetry(f, res) ==
    IF ~res.ok /\ f.valCalls < 2
    THEN [f EXCEPT !.val = "pending", !.valCalls = @ + 1]
    ELSE Dispatch([f EXCEPT !.val = "returned", !.valResult = Some(res),
                            !.writes = IF res.ok THEN @ + 1 ELSE @],
                  store_claims(f.req, claims_of(res)))

\* The future resumes with the validator's result res: lines 47-55 of call.
Resume(f, res) ==
    LET found == claims_of(res)
        g == [f EXCEPT !.val = "returned", !.valResult = Some(res),
                       !.writes = IF found # None THEN @ + 1 ELSE @]
    IN  Dispatch(g, store_claims(f.req, found))

\* What is left of a future that no longer exists: the request and all it
\* captured are gone, the counts of what it did remain.
Spent(f, pc) ==
    [Idle EXCEPT !.pc = pc, !.at = f.pc,
                 !.writes = f.writes, !.invoked = f.invoked, !.valCalls = f.valCalls]

\* Complete gone wrong: an error of the inner service is turned into a 500.
CompleteMapErr(f, o) ==
    [Spent(f, "done") EXCEPT
        !.innerOut = Some(o),
        !.out = IF o.tag = "Err"
                THEN Some([tag |-> "Ok", status |-> "500", body |-> o.body])
                ELSE Some(o)]

\* inner.call(req).await yields o, the value of the async block; the request
\* was moved into the inner service and the future is finished.
Complete(f, o) == [Spent(f, "done") EXCEPT !.innerOut = Some(o), !.out = Some(o)]

\* Dropped gone wrong: the validation was spawned as a task of its own, which
\* goes on to call the inner service after the future is gone.
DroppedDetached(f) ==
    [Spent(f, "cancelled") EXCEPT
        !.invoked = IF f.pc = "validating" THEN f.invoked + 1 ELSE f.invoked]

\* Dropping the future drops the request and everything else it owns.
Dropped(f) == Spent(f, "cancelled")

\* The factories the application constructs, one per claims shape.
Factories == [T \in Shapes |-> new("validator", "validation", T)]

\* No poll_ready has been made yet.
NoPoll == [mw |-> "", inner |-> "", returned |-> ""]

\* The application builds one factory per shape and attaches each to its
\* route; no request has arrived.
Attached ==
    /\ mws = [T \in Shapes |-> layer(Factories[T], InnerService(T))]
    /\ ready = [T \in Shapes |-> FALSE]
    /\ polled = NoPoll
    /\ layers = <<Factories["T1"], Factories["T2"]>>
    /\ clones = <<>>

Init ==
    /\ Attached
    /\ futs = [r \in Requests |-> Idle]

\* poll_return gone wrong: the middleware reports itself ready whatever the
\* inner service says.
poll_return_always_ready(p) == "ReadyOk"

\* Service::poll_ready returns the value of self.inner.poll_ready(cx).
poll_return(p) == p

\* The inner service reports p to the poll of attachment m; the caller
\* learns what the middleware returns.
Polls(m, p) ==
    /\ p \in InnerPoll(mws[m].inner)
    /\ mws' = [mws EXCEPT ![m].inner = AfterPoll(@, p)]
    /\ ready' = [ready EXCEPT ![m] = (poll_return(p) = "ReadyOk")]
    /\ UNCHANGED <<futs, layers, clones>>

\* Service::poll_ready: self.inner.poll_ready(cx)
poll_ready(m) ==
    /\ \E p \in PollOutcomes : Polls(m, p)
    /\ UNCHANGED polled

\* Service::call, up to the return of the boxed future.  The caller has seen
\* poll_ready return Ready(Ok(())) (the Service contract).
call(m, r) ==
    /\ futs[r].pc = "idle"
    /\ ready[m]
    /\ \E h \in Headers :
          futs' = [futs EXCEPT ![r] = Created(mws[m], NewRequest(m, h))]
    /\ mws' = [mws EXCEPT ![m].inner = CloneInner(@)]
    /\ ready' = [ready EXCEPT ![m] = FALSE]
    /\ UNCHANGED <<polled, layers, clones>>

\* Start gone wrong: the inner service is called without awaiting the
\* validator.
StartEager(r) ==
    LET f == futs[r]
        h == auth_header(f.req)
    IN  /\ f.pc = "created"
        /\ futs' = [futs EXCEPT ![r] =
                       Dispatch([f EXCEPT !.token = h, !.val = IF h # None THEN "pending" ELSE @,
                                          !.valCalls = IF h # None THEN @ + 1 ELSE @],
                                f.req)]
        /\ UNCHANGED services

\* Start gone wrong: the claims slot is filled with a placeholder before the
\* validator is asked, to be overwritten when the claims arrive.
StartPlaceholder(r) ==
    LET f == futs[r]
        h == auth_header(f.req)
    IN  /\ f.pc = "created"
        /\ IF h # None
           THEN futs' = [futs EXCEPT ![r] =
                            [f EXCEPT !.pc = "validating",
                                      !.token = Some(token_of(CHOOSE t \in h : TRUE)),
                                      !.val = "pending", !.valCalls = @ + 1,
                                      !.writes = @ + 1,
                                      !.req = store_claims(f.req, Some(Claims(f.shape, "u1")))]]
           ELSE futs' = [futs EXCEPT ![r] = Dispatch(f, store_claims(f.req, None))]
        /\ UNCHANGED services

\* First poll of the future: validate_auth_header runs to its await, or
\* returns None and the inner service is called.
Start(r) ==
    LET f == futs[r]
        h == auth_header(f.req)
    IN  /\ f.pc = "created"
        /\ IF h # None
           THEN futs' = [futs EXCEPT ![r] =
                            [f EXCEPT !.pc = "validating",
                                      !.token = Some(token_of(CHOOSE t \in h : TRUE)),
                                      !.val = "pending", !.valCalls = @ + 1]]
           ELSE futs' = [futs EXCEPT ![r] = Dispatch(f, store_claims(f.req, None))]
        /\ UNCHANGED services

\* ValidatorReturns gone wrong: the result delivered to r is the one of a
\* token some request in flight presented, not necessarily r's own.
ValidatorReturnsShared(r) ==
    LET f == futs[r]
    IN  /\ f.pc = "validating"
        /\ f.val = "pending"
        /\ \E s \in Requests :
              /\ futs[s].token # None
              /\ \E res \in validate_custom(CHOOSE t \in futs[s].token : TRUE,
                                             f.shape, f.validation) :
                    futs' = [futs EXCEPT ![r] = Resume(f, res)]
        /\ UNCHANGED services

\* The validator delivers its result: the claims are stored on success and
\* the inner service is called.
ValidatorReturns(r) ==
    LET f == futs[r]
    IN  /\ f.pc = "validating"
        /\ f.val = "pending"
        /\ \E res \in validate_custom(CHOOSE t \in f.token : TRUE, f.shape, f.validation) :
              futs' = [futs EXCEPT ![r] = Resume(f, res)]
        /\ UNCHANGED services

\* The inner service's future completes; its result is the future's result.
InnerCompletes(r) ==
    LET f == futs[r]
    IN  /\ f.pc = "dispatched"
        /\ \E o \in InnerOutcomes(f.inner, CHOOSE q \in f.observed : TRUE) :
              futs' = [futs EXCEPT ![r] = Complete(f, o)]
        /\ UNCHANGED services

\* The caller drops the future at one of its suspension points.
Cancel(r) ==
    /\ futs[r].pc \in {"created", "validating", "dispatched"}
    /\ futs' = [futs EXCEPT ![r] = Dropped(futs[r])]
    /\ UNCHANGED services

Next ==
    \/ \E m \in Shapes : poll_ready(m)
    \/ \E m \in Shapes, r \in Requests : call(m, r)
    \/ \E r \in Requests : Start(r)
    \/ \E r \in Requests : ValidatorReturns(r)
    \/ \E r \in Requests : InnerCompletes(r)
    \/ \E r \in Requests : Cancel(r)

Spec == Init /\ [][Next]_vars

\* The validator never completes the call made for r: the future it returned
\* stays pending and nothing wakes the task.
ValidatorHangs(r) ==
    /\ futs[r].pc = "validating"
    /\ futs[r].val = "pending"
    /\ futs' = [futs EXCEPT ![r].val = "hung"]
    /\ UNCHANGED services

NextOrHang == Next \/ \E r \in Requests : ValidatorHangs(r)

\* The executor polls a future that can make progress: a created future is
\* polled, a validator result that is not withheld arrives, the inner
\* service finishes.  Nothing obliges the caller to call or to cancel.
Fairness ==
    \A r \in Requests :
        /\ WF_vars(Start(r))
        /\ WF_vars(ValidatorReturns(r))
        /\ WF_vars(InnerCompletes(r))

FairSpec == Init /\ [][NextOrHang]_vars /\ Fairness

\* Service::poll_ready, with what the inner service reported and what the
\* middleware returned kept for inspection.
PollReturns(m, p) ==
    /\ Polls(m, p)
    /\ polled' = [mw |-> m, inner |-> p, returned |-> poll_return(p)]

PollReady(m) == \E p \in PollOutcomes : PollReturns(m, p)

ReadyNext ==
    \/ \E m \in Shapes : PollReady(m)
    \/ \E m \in Shapes, r \in Requests : call(m, r)
    \/ \E r \in Requests : Start(r)

\* Polls, calls and validations in flight, every poll_ready recorded.
ReadySpec == Init /\ [][ReadyNext]_vars

\* Room for one more factory or middleware instance.
MayBuild == (Len(layers) - Cardinality(Shapes)) + Len(clones) < MaxBuilt

\* A factory is cloned.
CloneLayer(i) ==
    /\ MayBuild
    /\ layers' = Append(layers, clone_layer(layers[i]))
    /\ UNCHANGED <<mws, futs, ready, polled, clones>>

\* A factory wraps one more inner service.
LayerAgain(i) ==
    /\ MayBuild
    /\ clones' = Append(clones, layer(layers[i], InnerService(layers[i].shape)))
    /\ UNCHANGED <<mws, futs, ready, polled, layers>>

\* An attached middleware instance is cloned, as the server does for every
\* connection.
CloneAttached(m) ==
    /\ MayBuild
    /\ clones' = Append(clones, clone_middleware(mws[m]))
    /\ UNCHANGED <<mws, futs, ready, polled, layers>>

\* A middleware instance made by layer or clone is cloned.
CloneAgain(j) ==
    /\ MayBuild
    /\ clones' = Append(clones, clone_middleware(clones[j]))
    /\ UNCHANGED <<mws, futs, ready, polled, layers>>

\* The route of shape m is served by instance j from now on.
Serve(m, j) ==
    /\ clones[j].shape = m
    /\ mws[m] # clones[j]
    /\ mws' = [mws EXCEPT ![m] = clones[j]]
    /\ ready' = [ready EXCEPT ![m] = FALSE]
    /\ UNCHANGED <<futs, polled, layers, clones>>

ConfigNext ==
    \/ \E i \in 1..Len(layers) : CloneLayer(i)
    \/ \E i \in 1..Len(layers) : LayerAgain(i)
    \/ \E m \in Shapes : CloneAttached(m)
    \/ \E j \in 1..Len(clones) : CloneAgain(j)
    \/ \E m \in Shapes, j \in 1..Len(clones) : Serve(m, j)
    \/ \E m \in Shapes : poll_ready(m)
    \/ \E m \in Shapes, r \in Requests : call(m, r)

\* Factories and middleware instances are made and cloned while requests
\* are received.
ConfigSpec == Init /\ [][ConfigNext]_vars

\* The future call returns for a request with header h on the route of
\* shape T: the middleware had been polled ready.
ReceivedRequest(T, req) ==
    Created([layer(Factories[T], InnerService(T)) EXCEPT !.inner = AfterPoll(@, "ReadyOk")],
            req)

Received(T, h) == ReceivedRequest(T, NewRequest(T, h))

\* Requests with header values of every form have been received on the
\* route of shape T1.
HeaderInit ==
    /\ Attached
    /\ futs \in [Requests -> {Received("T1", h) : h \in HeaderValues}]

HeaderNext ==
    \/ \E r \in Requests : Start(r)
    \/ \E r \in Requests : ValidatorReturns(r)
    \/ \E r \in Requests : InnerCompletes(r)
    \/ \E r \in Requests : Cancel(r)

\* The pipeline on header values of every form.
HeaderSpec == HeaderInit /\ [][HeaderNext]_vars

\* Requests have been received on both routes, some of them through outer
\* attachments that stored claims of their own.
OuterInit ==
    /\ Attached
    /\ futs \in [Requests ->
                   {ReceivedRequest(T, [NewRequest(T, h) EXCEPT !.extensions = e]) :
                       T \in Shapes, h \in Headers,
                       e \in {ArrivalExtensions, OuterExtensions}}]

OuterNext ==
    \/ \E r \in Requests : Start(r)
    \/ \E r \in Requests : ValidatorReturns(r)
    \/ \E r \in Requests : InnerCompletes(r)

\* The pipeline on requests that may hold claims on arrival.
OuterSpec == OuterInit /\ [][OuterNext]_vars

(***************************************************************************)
(* Properties                                                              *)
(***************************************************************************)

\* The future of r exists and holds what call gave it.
Alive(r) == futs[r].pc \in {"created", "validating", "dispatched"}

\* The inner service has been called for r and has not answered yet.
Dispatched(r) == futs[r].pc = "dispatched"

\* The step in which the inner service answers r.
Answered(r) == futs[r].pc = "dispatched" /\ futs'[r].pc = "done"

\* The request as it reached the middleware.
Arrival(r) == NewRequest(futs[r].shape, futs[r].req.authorization)

\* The request the inner service was called with.
Observed(r) == CHOOSE q \in futs[r].observed : TRUE

\* The claims slot of the attachment that serves r, as the inner service saw it.
ObservedSlot(r) == Observed(r).extensions[futs[r].shape]

\* The validator has failed / succeeded for r.
ValidatorFailed(r) == \E res \in futs[r].valResult : ~res.ok
ValidatorAccepted(r) == \E res \in futs[r].valResult : res.ok

\* The future of r yields, in this step, what the inner service yields, and
\* that is an answer of the inner service to request q.
YieldsInnerResultFor(r, q) ==
    /\ futs'[r].out = futs'[r].innerOut
    /\ futs'[r].out # None
    /\ futs'[r].out \subseteq InnerOutcomes(futs[r].inner, q)

\* C1 (states): a request without Authorization header never has its claims
\* slot written and never waits for the validator; the inner service is
\* called with the request as it arrived, claims slot empty.
C1_NoHeaderInv ==
    \A r \in Requests :
        (Alive(r) /\ futs[r].req.authorization = Absent) =>
            /\ futs[r].writes = 0
            /\ futs[r].valCalls = 0
            /\ futs[r].req.extensions = ArrivalExtensions
            /\ futs[r].pc # "validating"
            /\ Dispatched(r) =>
                  /\ futs[r].invoked = 1
                  /\ Observed(r) = Arrival(r)
                  /\ ObservedSlot(r) = None

\* C1 (steps): the first poll of such a request calls the inner service, and
\* the result of its future is what the inner service answers to the request
\* as it arrived.
C1_NoHeaderStep ==
    \A r \in Requests :
        futs[r].req.authorization = Absent =>
            /\ (futs[r].pc = "created" /\ futs'[r].pc \notin {"created", "cancelled"}) =>
                  futs'[r].pc = "dispatched"
            /\ Answered(r) => YieldsInnerResultFor(r, Arrival(r))

\* C1: without an Authorization header the claims slot is not written, the
\* inner service runs and sees an empty claims slot, and its result is
\* returned as the result for the request.
C1_NoHeaderPassThrough == []C1_NoHeaderInv /\ [][C1_NoHeaderStep]_vars

C1_Witness ==
    \E r \in Requests :
        /\ futs[r].pc = "dispatched"
        /\ futs[r].req.authorization = Absent
        /\ Observed(r) = NewRequest("T1", Absent)
        /\ handler("T1", Observed(r)) = "Not authenticated"

\* C2 (states): whatever error the validator reports, the claims slot is not
\* written and the inner service is called with the request as it arrived,
\* claims slot empty.
C2_InvalidTokenInv ==
    \A r \in Requests :
        ValidatorFailed(r) =>
            /\ Dispatched(r)
            /\ futs[r].writes = 0
            /\ futs[r].invoked = 1
            /\ ObservedSlot(r) = None
            /\ Observed(r) = Arrival(r)

\* C2 (steps): the step that brings the validator's error calls the inner
\* service, and the future's result is the inner service's answer, not a
\* response of the middleware.
C2_InvalidTokenStep ==
    \A r \in Requests :
        /\ (futs[r].pc = "validating" /\ futs'[r].pc \notin {"validating", "cancelled"}) =>
              futs'[r].pc = "dispatched"
        /\ (ValidatorFailed(r) /\ Answered(r)) => YieldsInnerResultFor(r, Arrival(r))

\* C2: a validator failure of any kind leaves the slot empty, the inner
\* service still runs, and no error response is made up.
C2_InvalidTokenPassThrough == []C2_InvalidTokenInv /\ [][C2_InvalidTokenStep]_vars

\* Two requests whose validations failed with different errors are both with
\* the inner service, unauthenticated.
C2_Witness ==
    \E r, s \in Requests :
        /\ futs[r].valResult = Some(Err("InvalidToken"))
        /\ futs[s].valResult = Some(Err("ExpiredSignature"))
        /\ Dispatched(r) /\ ObservedSlot(r) = None
        /\ Dispatched(s) /\ ObservedSlot(s) = None

\* C3: when the validator accepts the token of r with decoded identity c,
\* the inner service is called with the claims slot holding exactly c, and c
\* is a result of the validator for the token of r's own header.
C3_SuccessPath ==
    \A r \in Requests :
        \A res \in futs[r].valResult :
            res.ok =>
                /\ Dispatched(r)
                /\ ObservedSlot(r) = res.claims
                /\ futs[r].writes = 1
                /\ \A c \in res.claims : c.shape = futs[r].shape
                /\ \A h \in auth_header(Arrival(r)) :
                      res \in validate_custom(token_of(h), futs[r].shape, futs[r].validation)
                /\ auth_header(Arrival(r)) # None

C3_Witness ==
    \E r \in Requests :
        /\ Dispatched(r)
        /\ futs[r].req.authorization = Text(BearerPrefix \o TokA)
        /\ futs[r].valResult = Some(Ok(Claims("T1", "u1")))
        /\ ObservedSlot(r) = Some(Claims("T1", "u1"))
        /\ handler("T1", Observed(r)) = "Authenticated"

\* C4 (states): a future has a result exactly when it is done, and the
\* result is the inner service's.
C4_ResultInv ==
    \A r \in Requests :
        /\ futs[r].out = futs[r].innerOut
        /\ futs[r].out # None <=> futs[r].pc = "done"

\* C4 (steps): the only step that ends a future is the inner service's
\* answer, and the future's result is that answer: the response or the error
\* the inner service gives for the request it was called with.
C4_ResultStep ==
    \A r \in Requests :
        (futs[r].pc # "done" /\ futs'[r].pc = "done") =>
            /\ futs[r].pc = "dispatched"
            /\ YieldsInnerResultFor(r, Observed(r))

\* C4: for every validation outcome the result returned for a request is the
\* inner service's result, unchanged.
C4_ResultIsInnerResult == []C4_ResultInv /\ [][C4_ResultStep]_vars

\* An error of the inner service came back as it was, beside a response.
C4_Witness ==
    \E r, s \in Requests :
        /\ futs[r].pc = "done" /\ futs[r].out = Some(InnerError) /\ futs[r].valCalls = 1
        /\ futs[s].pc = "done" /\ futs[s].out = Some(Response("Authenticated"))

\* The steps a request's future can take.
Steps ==
    { <<"idle", "created">>,
      <<"created", "validating">>, <<"created", "dispatched">>,
      <<"validating", "dispatched">>, <<"dispatched", "done">>,
      <<"created", "cancelled">>, <<"validating", "cancelled">>,
      <<"dispatched", "cancelled">> }

\* C5 (states): the inner service is called at most once for a request, and
\* exactly once for a request that reached dispatch; it is called only when
\* the authentication attempt is over (no credential found, or the
\* validator's result is in); the validator is asked at most once; the
\* request is authenticated exactly when the validator accepted its token.
C5_StateInv ==
    \A r \in Requests :
        LET f == futs[r]
        IN  /\ f.pc \in {"idle", "created", "validating", "dispatched", "done", "cancelled"}
            /\ f.invoked <= 1
            /\ f.valCalls <= 1
            /\ f.pc \in {"dispatched", "done"} => f.invoked = 1
            /\ f.pc \in {"idle", "created", "validating"} => f.invoked = 0
            /\ f.pc = "cancelled" => (f.invoked = 1 <=> f.at = "dispatched")
            /\ f.pc = "done" => f.at = "dispatched"
            /\ Dispatched(r) =>
                  \/ f.val = "none" /\ auth_header(Arrival(r)) = None /\ f.valResult = None
                  \/ f.val = "returned" /\ f.valResult # None
            /\ f.pc = "validating" => f.val = "pending" /\ f.valResult = None
            /\ Dispatched(r) => (ObservedSlot(r) # None <=> ValidatorAccepted(r))

\* C5 (steps): a request only moves idle -> created -> (validating ->)
\* dispatched -> done, or is dropped by its caller; there is no step back to
\* the validator and no step that ends a request without the inner service.
C5_Steps ==
    \A r \in Requests :
        futs'[r].pc # futs[r].pc => <<futs[r].pc, futs'[r].pc>> \in Steps

\* C5: every request follows the state machine, and the inner service is
\* called once per request, after the authentication attempt, never instead
\* of it and never twice.
C5_StateMachine == []C5_StateInv /\ [][C5_Steps]_vars

\* One request is dispatched authenticated, another unauthenticated after
\* its validation failed.
C5_Witness ==
    \E r, s \in Requests :
        /\ Dispatched(r) /\ ObservedSlot(r) # None /\ futs[r].invoked = 1
        /\ Dispatched(s) /\ ObservedSlot(s) = None /\ futs[s].invoked = 1
        /\ futs[s].valCalls = 1

\* C6: whatever the interleaving, the claims slot the inner service sees for
\* r holds what the validator returned for r, which is a result for the token
\* of r's own header, or nothing; the other slots are as r arrived.
C6_NoCrossRequestLeak ==
    \A r \in Requests :
        Dispatched(r) =>
            /\ \A c \in ObservedSlot(r) :
                  \E h \in auth_header(Arrival(r)) :
                      Ok(c) \in validate_custom(token_of(h), futs[r].shape, futs[r].validation)
            /\ \A c \in ObservedSlot(r) : futs[r].valResult = Some(Ok(c))
            /\ ValidatorFailed(r) => ObservedSlot(r) = None
            /\ \A k \in Keys \ {futs[r].shape} :
                  Observed(r).extensions[k] = ArrivalExtensions[k]

\* Two requests in flight through the same middleware instance: one was
\* dispatched with the claims of its token while the other, whose token
\* decodes to another subject, still waits for the validator.
C6_Witness ==
    \E r, s \in Requests :
        /\ r # s
        /\ futs[r].shape = "T1" /\ futs[s].shape = "T1"
        /\ futs[r].pc = "dispatched" /\ ObservedSlot(r) = Some(Claims("T1", "u1"))
        /\ futs[s].pc = "validating" /\ futs[s].token = Some(TokC)

\* C7: a request whose future was created and is not dropped is eventually
\* handed to the inner service, also when the validator never answers.
C7_EventuallyDispatched ==
    \A r \in Requests :
        (futs[r].pc = "created") ~> (futs[r].pc \in {"dispatched", "done", "cancelled"})

\* C8 (steps): dropping the future of r while it awaits the validator leaves
\* the middleware instances and every other request as they are, and a
\* dropped future never takes another step.
C8_CancelStep ==
    \A r \in Requests :
        /\ (futs[r].pc = "validating" /\ futs'[r].pc = "cancelled") =>
              /\ mws' = mws
              /\ \A s \in Requests \ {r} : futs'[s] = futs[s]
              /\ futs'[r].writes = 0
              /\ futs'[r].invoked = 0
        /\ futs[r].pc = "cancelled" => futs'[r] = futs[r]

\* C8 (states): a request dropped while it awaited the validator has no
\* claims written, no validator result, and the inner service was not
\* called for it.
C8_CancelInv ==
    \A r \in Requests :
        (futs[r].pc = "cancelled" /\ futs[r].at = "validating") =>
            /\ futs[r].writes = 0
            /\ futs[r].invoked = 0
            /\ futs[r].valResult = None
            /\ futs[r].observed = None
            /\ futs[r].out = None
            /\ \A k \in Keys : futs[r].req.extensions[k] = None

\* C8: cancellation during validation discards the validation for good and
\* touches nothing else.
C8_CancelDiscards == []C8_CancelInv /\ [][C8_CancelStep]_vars

\* A request was dropped while awaiting the validator, and another request of
\* the same middleware instance went on to be served with its claims.
C8_Witness ==
    \E r, s \in Requests :
        /\ futs[r].pc = "cancelled" /\ futs[r].at = "validating"
        /\ futs[s].pc = "done" /\ futs[s].writes = 1
        /\ futs[s].out = Some(Response("Authenticated"))

\* C9: both attachments hold the same validator, and a request served by the
\* attachment for shape T has claims only in the slot of T, of shape T, while
\* every other slot is as the request arrived; the handler behind the
\* attachment is the one that reads the slot of T.
C9_ShapesDoNotInterfere ==
    /\ mws["T1"].oidc_validator = mws["T2"].oidc_validator
    /\ \A T \in Shapes : mws[T].shape = T /\ mws[T].inner.handler = T
    /\ \A r \in Requests :
          Alive(r) =>
              /\ futs[r].inner.handler = futs[r].shape
              /\ \A k \in Keys \ {futs[r].shape} :
                    futs[r].req.extensions[k] = ArrivalExtensions[k]
              /\ \A c \in futs[r].req.extensions[futs[r].shape] : c.shape = futs[r].shape
              /\ Dispatched(r) => Observed(r) = futs[r].req

\* The same token was accepted on both routes, and each handler sees the
\* claims in its own shape only.
C9_Witness ==
    \E r, s \in Requests :
        /\ Dispatched(r) /\ futs[r].shape = "T1" /\ futs[r].token = Some(TokA)
        /\ Dispatched(s) /\ futs[s].shape = "T2" /\ futs[s].token = Some(TokA)
        /\ Observed(r).extensions = [ArrivalExtensions EXCEPT !["T1"] = Some(Claims("T1", "u1"))]
        /\ Observed(s).extensions = [ArrivalExtensions EXCEPT !["T2"] = Some(Claims("T2", "u1"))]

\* The header of r is text that does not start with "Bearer ".
MalformedScheme(r) ==
    \E h \in auth_header(Arrival(r)) : strip_prefix(h, BearerPrefix) = None

\* No credential: the header is missing or is not text.
NoCredential(r) == auth_header(Arrival(r)) = None

\* C10 as claimed: a dispatched request with no credential, with a malformed
\* scheme, with a validator failure or with a deserialization failure has no
\* claims attached.
C10_FourFailuresNoClaims ==
    \A r \in Requests :
        (Dispatched(r) /\ (NoCredential(r) \/ MalformedScheme(r) \/ ValidatorFailed(r))) =>
            /\ futs[r].writes = 0
            /\ ObservedSlot(r) = None

\* C10 as amended: a dispatched request with no credential or with a failure
\* reported by the validator (deserialization included) has no claims
\* attached and reaches the inner service as it arrived; a header that is
\* not of the bearer form is handed whole to the validator, once, and the
\* request is treated as the validator decides.
C10_FailuresNoClaims ==
    \A r \in Requests :
        Dispatched(r) =>
            /\ (NoCredential(r) \/ ValidatorFailed(r)) =>
                  /\ futs[r].writes = 0
                  /\ futs[r].invoked = 1
                  /\ ObservedSlot(r) = None
                  /\ Observed(r) = Arrival(r)
            /\ MalformedScheme(r) =>
                  /\ futs[r].token = auth_header(Arrival(r))
                  /\ futs[r].valCalls = 1
                  /\ \A res \in futs[r].valResult : ObservedSlot(r) = claims_of(res)
                  /\ futs[r].valResult # None

\* A header of another scheme and a token that does not deserialize are both
\* with the handler, which sees no identity; a header that is not text too.
C10_Witness ==
    \E r, s \in Requests :
        /\ Dispatched(r) /\ MalformedScheme(r)
        /\ futs[r].valResult = Some(Err("InvalidToken"))
        /\ handler(futs[r].shape, Observed(r)) = "Not authenticated"
        /\ Dispatched(s) /\ futs[s].valResult = Some(Err("Deserialize"))
        /\ handler(futs[s].shape, Observed(s)) = "Not authenticated"

(***************************************************************************)
(* C11: token extraction                                                   *)
(***************************************************************************)

\* Text s begins with the seven characters of "Bearer ", in that case.
StartsWithBearer(s) ==
    /\ Len(s) >= 7
    /\ s[1] = "B" /\ s[2] = "e" /\ s[3] = "a" /\ s[4] = "r"
    /\ s[5] = "e" /\ s[6] = "r" /\ s[7] = " "

\* The validator has been invoked for r and the future still holds the
\* request and the token.
TokenHeld(r) == futs[r].pc \in {"validating", "dispatched"} /\ futs[r].token # None

\* The token held for r and the text of the header it was computed from.
TokenOf(r) == CHOOSE t \in futs[r].token : TRUE
HeaderText(r) == futs[r].req.authorization.text

\* C11: the token handed to the validator is the header value without one
\* leading case-sensitive "Bearer " when the value starts with it and the
\* whole value otherwise: "bearer a", "Basic a" and a bare token are passed
\* whole, "Bearer " gives the empty token, "Bearer Bearer a" gives
\* "Bearer a"; a header that is absent or not text gives no token and the
\* request goes on as one without credential.
C11_TokenExtraction ==
    \A r \in Requests :
       /\ TokenHeld(r) =>
             /\ futs[r].req.authorization.kind = "text"
             /\ StartsWithBearer(HeaderText(r)) => BearerPrefix \o TokenOf(r) = HeaderText(r)
             /\ ~StartsWithBearer(HeaderText(r)) => TokenOf(r) = HeaderText(r)
             /\ HeaderText(r) = BearerPrefix => TokenOf(r) = <<>>
             /\ HeaderText(r) = BearerPrefix \o BearerPrefix \o TokA
                   => TokenOf(r) = BearerPrefix \o TokA
             /\ HeaderText(r) = <<"b", "e", "a", "r", "e", "r", " ">> \o TokA
                   => TokenOf(r) = <<"b", "e", "a", "r", "e", "r", " ", "a">>
             /\ HeaderText(r) = <<"B", "a", "s", "i", "c", " ">> \o TokA
                   => TokenOf(r) = <<"B", "a", "s", "i", "c", " ", "a">>
             /\ HeaderText(r) = TokA => TokenOf(r) = <<"a">>
       /\ (futs[r].pc \in {"validating", "dispatched"}
             /\ futs[r].req.authorization.kind # "text") =>
             /\ futs[r].pc = "dispatched"
             /\ futs[r].token = None
             /\ futs[r].val = "none"
             /\ futs[r].valCalls = 0
             /\ Observed(r).extensions = ArrivalExtensions

\* Tokens were computed from "Bearer ", from "Bearer Bearer a" and from
\* "bearer a", and a header that is not text was treated as no credential.
C11_Witness ==
    /\ \E r \in Requests : TokenHeld(r) /\ HeaderText(r) = BearerPrefix /\ TokenOf(r) = <<>>
    /\ \E r \in Requests :
          \/ TokenHeld(r) /\ HeaderText(r) = BearerPrefix \o BearerPrefix \o TokA
          \/ TokenHeld(r) /\ HeaderText(r) = <<"b", "e", "a", "r", "e", "r", " ">> \o TokA
          \/ futs[r].pc = "dispatched" /\ futs[r].req.authorization = NotText

(***************************************************************************)
(* C12: invocations of the validator                                       *)
(***************************************************************************)

\* The number of validator invocations made for r fits what its header
\* gave, and a result held for r is a result of r's own invocation.
C12_CallsInv ==
    \A r \in Requests :
       LET f == futs[r]
       IN  /\ f.valCalls <= 1
           /\ f.pc \in {"idle", "created"} => f.valCalls = 0
           /\ f.pc \in {"validating", "dispatched"} =>
                 /\ f.req.authorization.kind = "text" => f.valCalls = 1 /\ f.token # None
                 /\ f.req.authorization.kind # "text" => f.valCalls = 0 /\ f.token = None
           /\ f.pc \in {"done", "cancelled"} /\ f.at = "created" => f.valCalls = 0
           /\ f.valResult # None =>
                 /\ f.valCalls = 1
                 /\ f.valResult \subseteq
                       validate_custom(CHOOSE t \in f.token : TRUE, f.shape, "validation")

\* The validator is invoked only in the step that computes the token, and a
\* step that delivers a result to one request changes no other request.
C12_CallsStep ==
    \A r \in Requests :
       /\ futs'[r].valCalls # futs[r].valCalls =>
             /\ futs[r].pc = "created" /\ futs'[r].pc = "validating"
             /\ futs'[r].valCalls = futs[r].valCalls + 1
       /\ futs[r].valResult # None /\ Alive(r) /\ Alive(r)' =>
             futs'[r].valResult = futs[r].valResult
       /\ (futs[r].valResult = None /\ futs'[r].valResult # None) =>
             \A q \in Requests \ {r} : futs'[q] = futs[q]

\* C12: the validator is invoked at most once per request: once when the
\* header gave a token (the empty token included), never when the header is
\* absent or not text, never again after a failure, and the result a
\* request gets is the result of its own invocation.
C12_ValidatorAtMostOnce == []C12_CallsInv /\ [][C12_CallsStep]_vars

\* The empty token of "Bearer " was validated once and refused, the request
\* went on; a request whose header is not text went on without invocation.
C12_Witness ==
    /\ \E r \in Requests :
          /\ futs[r].pc = "dispatched" /\ futs[r].token = {<<>>}
          /\ futs[r].valCalls = 1 /\ ValidatorFailed(r)
    /\ \E r \in Requests :
          /\ futs[r].pc = "dispatched" /\ futs[r].req.authorization = NotText
          /\ futs[r].valCalls = 0

(***************************************************************************)
(* C13: writes of the claims slot                                          *)
(***************************************************************************)

\* The slot of r's own shape, in the request the future holds.
Slot(r) == futs[r].req.extensions[futs[r].shape]

\* In this step the validator's acceptance is delivered to r and the inner
\* service is called.
AcceptedStep(r) ==
    /\ futs[r].pc = "validating"
    /\ futs'[r].pc = "dispatched"
    /\ \E res \in futs'[r].valResult : res.ok

\* C13 (states): at most one write per request; none before the validator
\* has accepted; the request the inner service was called with is the one
\* the future held at that moment.
C13_WriteInv ==
    \A r \in Requests :
       LET f == futs[r]
       IN  /\ f.writes <= 1
           /\ f.pc \in {"idle", "created", "validating"} => f.writes = 0
           /\ f.pc \in {"created", "validating"} => Slot(r) = None
           /\ Dispatched(r) =>
                 /\ f.writes = 1 <=> ValidatorAccepted(r)
                 /\ f.writes = 0 => Slot(r) = None
                 /\ Observed(r) = f.req
           /\ f.pc \in {"done", "cancelled"} /\ f.at # "dispatched" => f.writes = 0

\* C13 (steps): the slot is written only in the step in which the
\* validator's acceptance is delivered and the inner service is called; the
\* steps of the failure paths and every step after the call write nothing.
C13_WriteStep ==
    \A r \in Requests :
       /\ futs'[r].writes # futs[r].writes =>
             AcceptedStep(r) /\ futs'[r].writes = futs[r].writes + 1
       /\ (Alive(r) /\ Alive(r)' /\ futs'[r].req.extensions # futs[r].req.extensions) =>
             AcceptedStep(r) /\ futs'[r].writes = futs[r].writes + 1
       /\ (Alive(r) /\ Alive(r)' /\ ~AcceptedStep(r)) => futs'[r].req = futs[r].req
       /\ (Dispatched(r) /\ Alive(r)') => futs'[r].req = futs[r].req

\* C13: the claims slot of a request is written at most once, only between
\* a successful validator result and the call of the inner service, never
\* after that call and never on a failure path.
C13_SlotWrittenOnce == []C13_WriteInv /\ [][C13_WriteStep]_vars

\* One request was dispatched with its slot written once, another was
\* dispatched after a validator failure with no write.
C13_Witness ==
    /\ \E r \in Requests :
          Dispatched(r) /\ ValidatorAccepted(r) /\ futs[r].writes = 1 /\ Slot(r) # None
    /\ \E r \in Requests :
          Dispatched(r) /\ ValidatorFailed(r) /\ futs[r].writes = 0 /\ Slot(r) = None

(***************************************************************************)
(* C14: readiness                                                          *)
(***************************************************************************)

\* What the last poll_ready returned is what the inner service reported;
\* the caller holds an attachment ready exactly when its inner service is;
\* the middleware has no field besides inner service, validator handle,
\* config and shape; and whatever the inner service of an attachment can
\* report now, poll_ready can return now, whatever the requests in flight.
C14_ReadyInv ==
    /\ polled # NoPoll =>
          /\ polled.inner \in PollOutcomes
          /\ polled.returned = polled.inner
    /\ \A m \in Shapes :
          /\ ready[m] <=> mws[m].inner.state = "ready"
          /\ DOMAIN mws[m] = {"inner", "oidc_validator", "validation", "shape"}
          /\ \A p \in InnerPoll(mws[m].inner) :
                ENABLED (PollReturns(m, p) /\ polled'.returned = p)
          /\ \A p \in PollOutcomes \ InnerPoll(mws[m].inner) :
                ~ENABLED (PollReturns(m, p) /\ polled'.returned = p)

\* A poll_ready touches no request, and a step of a request leaves the
\* readiness of every attachment as it is.
C14_ReadyStep ==
    /\ polled' # polled => futs' = futs
    /\ (\E r \in Requests : futs'[r] # futs[r] /\ futs[r].pc # "idle") =>
          \A m \in Shapes : ready'[m] = ready[m] /\ mws'[m] = mws[m]

\* C14: poll_ready returns Pending, Ready(Ok) or Ready(Err(e)) exactly when
\* the inner service's poll_ready does, with the same error, and the
\* middleware keeps no flow-control state: validations in flight never make
\* it report not-ready.
C14_ReadinessIsInnerReadiness == []C14_ReadyInv /\ [][C14_ReadyStep]_vars

\* With a validation in flight on the same attachment, the inner service
\* reported ready and so did the middleware; or it reported an error and the
\* middleware returned that error.
C14_Witness ==
    /\ \E r \in Requests : futs[r].pc = "validating" /\ futs[r].shape = polled.mw
    /\ \/ polled.inner = "ReadyOk" /\ polled.returned = "ReadyOk" /\ ready[polled.mw]
       \/ polled.inner = "ReadyErr e2" /\ polled.returned = "ReadyErr e2"

(***************************************************************************)
(* C15: the authentication configuration                                   *)
(***************************************************************************)

\* x holds the validator handle and the config given to new.
HoldsConfig(x) == x.oidc_validator = "validator" /\ x.validation = "validation"

\* C15: every factory, every clone of a factory, every middleware instance
\* made by layer or by clone, and every future call has returned hold the
\* validator handle and the validation config given at construction,
\* whatever layer, clone and call operations have been made.
C15_ConfigUnchanged ==
    /\ \A i \in 1..Len(layers) : HoldsConfig(layers[i])
    /\ \A j \in 1..Len(clones) : HoldsConfig(clones[j])
    /\ \A m \in Shapes : HoldsConfig(mws[m])
    /\ \A r \in Requests : Alive(r) => HoldsConfig(futs[r])

\* A clone of a factory made a middleware instance, a clone of which
\* serves a route and has received a request.
C15_Witness ==
    /\ Len(layers) > Cardinality(Shapes)
    /\ Len(clones) >= 1
    /\ \E r \in Requests :
          /\ futs[r].pc = "created"
          /\ \E j \in 1..Len(clones) :
                clones[j].shape = futs[r].shape /\ mws[futs[r].shape] = clones[j]

(***************************************************************************)
(* C16: the instance that is called                                        *)
(***************************************************************************)

\* In this step call is made for request r on attachment m.
CallStep(m, r) ==
    futs[r].pc = "idle" /\ futs'[r].pc = "created" /\ futs'[r].shape = m

\* C16 (states): the inner service a future owns is one that reported
\* ready; the caller holds an attachment ready exactly while the instance
\* in it is the polled one.
C16_InstanceInv ==
    /\ \A r \in Requests : Alive(r) => futs[r].inner.state = "ready"
    /\ \A m \in Shapes : ready[m] <=> mws[m].inner.state = "ready"

\* C16 (steps): call hands the future the instance the middleware held,
\* which the last poll_ready reported ready, and leaves a clone that has
\* not been polled; the attachment is ready again only by a poll_ready in
\* which the retained instance reports ready.
C16_InstanceStep ==
    \A m \in Shapes :
       /\ \A r \in Requests :
             CallStep(m, r) =>
                /\ ready[m]
                /\ mws[m].inner.state = "ready"
                /\ futs'[r].inner = mws[m].inner
                /\ mws'[m].inner = CloneInner(mws[m].inner)
                /\ mws'[m].inner.state = "idle"
                /\ ~ready'[m]
       /\ (~ready[m] /\ ready'[m]) =>
             /\ futs' = futs
             /\ mws'[m].inner = AfterPoll(mws[m].inner, "ReadyOk")

\* C16: the instance that receives a request is the one the middleware
\* held when poll_ready last reported ready; call swaps it for a fresh
\* clone, no request goes to a clone that was not polled ready, and the
\* next call needs a new poll_ready on the retained clone.
C16_CalledInstanceWasPolled == []C16_InstanceInv /\ [][C16_InstanceStep]_vars

\* Two requests were received on the same attachment, each by a polled
\* instance, and the attachment now holds a clone that has not been polled.
C16_Witness ==
    \E r, q \in Requests :
       /\ r # q
       /\ Alive(r) /\ Alive(q)
       /\ futs[r].shape = futs[q].shape
       /\ futs[r].inner.state = "ready" /\ futs[q].inner.state = "ready"
       /\ mws[futs[r].shape].inner.state = "idle"
       /\ ~ready[futs[r].shape]

(***************************************************************************)
(* C17: what the middleware changes in a request                           *)
(***************************************************************************)

\* The request of r arrived with claims stored by outer attachments.
CameThroughOuter(r) ==
    \E k \in Shapes \ {futs[r].shape} : futs[r].req.extensions[k] = Some(OuterClaims(k))

\* C17 (steps): no step of the future changes method, URI, Authorization
\* header, body or an extension other than the slot of its own shape; that
\* slot becomes the decoded claims in the step that delivers the
\* validator's acceptance and stays as it is in every other step.
C17_FrameStep ==
    \A r \in Requests :
       (Alive(r) /\ Alive(r)') =>
          LET q == futs[r].req
              n == futs'[r].req
              T == futs[r].shape
          IN  /\ n.method = q.method
              /\ n.uri = q.uri
              /\ n.authorization = q.authorization
              /\ n.body = q.body
              /\ \A k \in Keys \ {T} : n.extensions[k] = q.extensions[k]
              /\ AcceptedStep(r) =>
                    \E res \in futs'[r].valResult : n.extensions[T] = res.claims
              /\ ~AcceptedStep(r) => n.extensions[T] = q.extensions[T]

\* C17 (states): the inner service is called with the request the future
\* holds; a request that arrived with claims of the own shape reaches it
\* with those claims after a failed or missing authentication and with the
\* newly decoded claims after a successful one, every other extension as
\* it arrived.
C17_FrameInv ==
    \A r \in Requests :
       Dispatched(r) =>
          /\ Observed(r) = futs[r].req
          /\ Observed(r).method = "GET" /\ Observed(r).body = ""
          /\ Observed(r).uri = futs[r].shape
          /\ Observed(r).extensions["Other"] = Some(OtherValue)
          /\ CameThroughOuter(r) =>
                /\ \A k \in Shapes \ {futs[r].shape} :
                      Observed(r).extensions[k] = Some(OuterClaims(k))
                /\ ValidatorAccepted(r) =>
                      /\ ObservedSlot(r) # Some(OuterClaims(futs[r].shape))
                      /\ \E res \in futs[r].valResult : ObservedSlot(r) = res.claims
                /\ ~ValidatorAccepted(r) =>
                      ObservedSlot(r) = Some(OuterClaims(futs[r].shape))

\* C17: the middleware changes nothing of a request but the claims slot of
\* its own shape; claims already in that slot on arrival stay after a
\* failed authentication and are replaced by the decoded claims after a
\* successful one.
C17_OnlyOwnSlotChanges == []C17_FrameInv /\ [][C17_FrameStep]_vars

\* Of two requests that arrived with outer claims, one failed validation
\* and reached the inner service with the outer claims, the other passed
\* and reached it with the decoded ones.
C17_Witness ==
    /\ \E r \in Requests :
          /\ Dispatched(r) /\ CameThroughOuter(r) /\ ValidatorFailed(r)
          /\ ObservedSlot(r) = Some(OuterClaims(futs[r].shape))
    /\ \E r \in Requests :
          /\ Dispatched(r) /\ CameThroughOuter(r) /\ ValidatorAccepted(r)
          /\ ObservedSlot(r) = Some(Claims(futs[r].shape, "u1"))

====
